---------------------------- MODULE Spec2Model ----------------------------
(***************************************************************************)
(* Model of spotify_objects.py: TracksGraph (feature normalisation, the    *)
(* k-nearest pass of build_graph, the repair pass of _ensure_connectivity) *)
(* and the module-level is_connected.                                      *)
(*                                                                         *)
(* Numbers.  Raw feature values are integers; a normalised value is the    *)
(* exact quotient the code computes, kept as a fraction [num, den] with    *)
(* den > 0 and compared by cross-multiplication.  _distance returns        *)
(* math.sqrt of a sum of squares; the model keeps the sum of squares       *)
(* itself, which orders pairs exactly as its square root does.             *)
(*                                                                         *)
(* Identity.  A TrackNode is identified by the field id; in a graph built  *)
(* by TracksGraph the id of a node is its position in self.nodes.  The     *)
(* neighbour sets are the function neighbours : id -> set of ids.          *)
(***************************************************************************)
EXTENDS Integers, Sequences, FiniteSets

\* Largest number of tracks of a playlist.
MaxTracks == 6

\* Largest length of a node list handed to is_connected on its own.
MaxListLen == 3

\* Node identities available to a hand-made graph.
NodeIds == {1, 2, 3}

VARIABLES
    tracks,                 \* playlist.tracklist, the input
    nodes,                  \* self.nodes
    neighbours,             \* id -> node.neighbours
    pc,                     \* position in TracksGraph.__init__ / __main__
    i,                      \* build_graph: position of `node` in self.nodes
    distances,              \* build_graph: the sorted list `distances`
    j,                      \* build_graph: position in distances[:2]
    visited,                \* _ensure_connectivity: `visited`
    unvisited,              \* _ensure_connectivity: `unvisited`
    k,                      \* _ensure_connectivity: position in `unvisited`
    unvisited_node,         \* _ensure_connectivity: loop variable
    closest_visited_node,   \* _ensure_connectivity: distances[0][1]
    first_pass,             \* neighbours as the k-nearest pass left them
    connected               \* result of is_connected(graph)

vars == <<tracks, nodes, neighbours, pc, i, distances, j, visited, unvisited,
          k, unvisited_node, closest_visited_node, first_pass, connected>>

-----------------------------------------------------------------------------
(* Exact arithmetic on quotients *)

Min(a, b) == IF a < b THEN a ELSE b

\* n / d for d # 0, as a fraction with a positive denominator (not reduced).
Quot(n, d) ==
    IF d < 0 THEN [num |-> -n, den |-> -d] ELSE [num |-> n, den |-> d]

Zero == [num |-> 0, den |-> 1]

FAdd(a, b) == Quot(a.num * b.den + b.num * a.den, a.den * b.den)

FEq(a, b) == a.num * b.den = b.num * a.den

FLess(a, b) == a.num * b.den < b.num * a.den

FLeq(a, b) == a.num * b.den <= b.num * a.den

-----------------------------------------------------------------------------
(* Track and TrackNode *)

\* The audio features of a Track (Track.__init__); id, uri and name are opaque.
Track(l, e, ins, t, v, d) ==
    [loudness |-> l, energy |-> e, instrumentalness |-> ins,
     tempo |-> t, valence |-> v, danceability |-> d]

\* The tracks a playlist is drawn from: loudness <= 0, the other features >= 0.
Catalog ==
    { Track(-4, 0, 0, 1, 0, 1),
      Track(-3, 1, 1, 1, 0, 0),
      Track(-2, 2, 0, 1, 1, 1),
      Track(-3, 2, 1, 2, 0, 1),
      Track( 0, 0, 0, 1, 0, 0) }

\* TrackNode.__init__: every dimension 0.
TrackNode(id) ==
    [id |-> id,
     loudness_dimention |-> Zero, energy_dimention |-> Zero,
     instrumentalness_dimention |-> Zero, tempo_dimention |-> Zero,
     valence_dimention |-> Zero, danceability_dimention |-> Zero]


-----------------------------------------------------------------------------
(* TracksGraph._normalize_features *)

\* float('-inf'), the initial max_loudness.
NegInf == [finite |-> FALSE, value |-> 0]

\* First loop, max_loudness: `if track.loudness > max_loudness`.
RECURSIVE MaxLoudness(_, _)
MaxLoudness(ts, m) ==
    IF ts = <<>> THEN m
    ELSE LET x == Head(ts).loudness
         IN  MaxLoudness(Tail(ts),
                 IF ~m.finite \/ x > m.value
                 THEN [finite |-> TRUE, value |-> x] ELSE m)

\* First loop, the other maxima: they start at 0, `if track.f > max_f`.
RECURSIVE MaxFeature(_, _, _)
MaxFeature(ts, f, m) ==
    IF ts = <<>> THEN m
    ELSE MaxFeature(Tail(ts), f, IF Head(ts)[f] > m THEN Head(ts)[f] ELSE m)

\* Mutant of LoudnessDimention: the difference taken the other way round.
LoudnessDimentionFlipped(raw, max_loudness) ==
    Quot(max_loudness - raw, -max_loudness)

\* (track.loudness - max_loudness) / -max_loudness, for -max_loudness # 0.
LoudnessDimention(raw, max_loudness) ==
    Quot(raw - max_loudness, -max_loudness)

\* track.f / max_f if max_f else 0
RatioDimention(raw, max_f) ==
    IF max_f # 0 THEN Quot(raw, max_f) ELSE Zero

\* The division of line 82 raises ZeroDivisionError: some track is
\* normalised and -max_loudness is 0.
RaisesZeroDivision(ts) ==
    ts # <<>> /\ -(MaxLoudness(ts, NegInf).value) = 0

\* Second loop: one TrackNode per track, appended in track order.
NormalizedNodes(ts) ==
    LET max_loudness == MaxLoudness(ts, NegInf).value
        max_energy == MaxFeature(ts, "energy", 0)
        max_instrumentalness == MaxFeature(ts, "instrumentalness", 0)
        max_tempo == MaxFeature(ts, "tempo", 0)
        max_valence == MaxFeature(ts, "valence", 0)
        max_danceability == MaxFeature(ts, "danceability", 0)
    IN  [p \in 1..Len(ts) |->
          [id |-> p,
           loudness_dimention |-> LoudnessDimention(ts[p].loudness, max_loudness),
           energy_dimention |-> RatioDimention(ts[p].energy, max_energy),
           instrumentalness_dimention |->
               RatioDimention(ts[p].instrumentalness, max_instrumentalness),
           tempo_dimention |-> RatioDimention(ts[p].tempo, max_tempo),
           valence_dimention |-> RatioDimention(ts[p].valence, max_valence),
           danceability_dimention |->
               RatioDimention(ts[p].danceability, max_danceability)]]

-----------------------------------------------------------------------------
(* TracksGraph._distance *)

\* The relevance mask set in TracksGraph.__init__.
Relevant ==
    [loudness_dimention |-> TRUE, energy_dimention |-> TRUE,
     instrumentalness_dimention |-> FALSE, tempo_dimention |-> TRUE,
     valence_dimention |-> FALSE, danceability_dimention |-> FALSE]

\* (node1.f - node2.f) ** 2
SquaredDifference(a, b) ==
    LET d == a.num * b.den - b.num * a.den
        m == a.den * b.den
    IN  Quot(d * d, m * m)

\* if self.f_relevant: distance += (node1.f - node2.f) ** 2
AddTerm(distance, node1, node2, f) ==
    IF Relevant[f]
    THEN FAdd(distance, SquaredDifference(node1[f], node2[f]))
    ELSE distance

\* The sum whose square root _distance returns.
Distance(node1, node2) ==
    AddTerm(AddTerm(AddTerm(AddTerm(AddTerm(AddTerm(Zero,
        node1, node2, "loudness_dimention"),
        node1, node2, "energy_dimention"),
        node1, node2, "instrumentalness_dimention"),
        node1, node2, "tempo_dimention"),
        node1, node2, "valence_dimention"),
        node1, node2, "danceability_dimention")

\* The node of self.nodes with identity id.
NodeOf(id) == nodes[id]

-----------------------------------------------------------------------------
(* list.sort(key=lambda x: x[0]): stable, ascending *)

\* Mutant of InsertSorted: an element goes before those of equal distance.
RECURSIVE InsertSortedUnstable(_, _)
InsertSortedUnstable(sorted, e) ==
    IF sorted = <<>> THEN <<e>>
    ELSE IF FLeq(e.distance, Head(sorted).distance)
         THEN <<e>> \o sorted
         ELSE <<Head(sorted)>> \o InsertSortedUnstable(Tail(sorted), e)

RECURSIVE InsertSorted(_, _)
InsertSorted(sorted, e) ==
    IF sorted = <<>> THEN <<e>>
    ELSE IF FLess(e.distance, Head(sorted).distance)
         THEN <<e>> \o sorted
         ELSE <<Head(sorted)>> \o InsertSorted(Tail(sorted), e)

RECURSIVE SortByDistance(_)
SortByDistance(ds) ==
    IF ds = <<>> THEN <<>>
    ELSE InsertSorted(SortByDistance(SubSeq(ds, 1, Len(ds) - 1)), ds[Len(ds)])

-----------------------------------------------------------------------------
(* The traversal of _ensure_connectivity (lines 125-132) and is_connected *)

\* A set as a list, in ascending order of identity.  The order in which
\* Python iterates a set of TrackNodes is arbitrary; the set of nodes the
\* traversal ends with does not depend on it.
RECURSIVE SetToSeq(_)
SetToSeq(S) ==
    IF S = {} THEN <<>>
    ELSE LET x == CHOOSE y \in S : \A z \in S : y <= z
         IN  <<x>> \o SetToSeq(S \ {x})

\* while to_visit: current = to_visit.pop(); if current not in visited:
\*     visited.add(current); to_visit.extend(n for n in current.neighbours
\*                                           if n not in visited)
RECURSIVE Traverse(_, _, _)
Traverse(vis, to_visit, nbrs) ==
    IF to_visit = <<>> THEN vis
    ELSE LET current == to_visit[Len(to_visit)]
             rest == SubSeq(to_visit, 1, Len(to_visit) - 1)
         IN  IF current \notin vis
             THEN Traverse(vis \cup {current},
                           rest \o SetToSeq(nbrs[current] \ (vis \cup {current})),
                           nbrs)
             ELSE Traverse(vis, rest, nbrs)

\* to_visit = [nodes[0]] if nodes else []
StartList(ns) == IF ns # <<>> THEN <<ns[1].id>> ELSE <<>>

\* Mutant of is_connected: len(visited) <= len(graph.nodes).
is_connected_at_most(ns, nbrs) ==
    Cardinality(Traverse({}, StartList(ns), nbrs)) <= Len(ns)

\* is_connected(graph): len(visited) == len(graph.nodes)
is_connected(ns, nbrs) ==
    Cardinality(Traverse({}, StartList(ns), nbrs)) = Len(ns)

-----------------------------------------------------------------------------
(* TracksGraph.__init__ and build_graph *)

\* TracksGraph.__init__, lines 45-46: self.nodes = [];
\* self._normalize_features(playlist.tracklist).  A ZeroDivisionError leaves
\* the constructor before any node is appended.
Normalize ==
    /\ pc = "start"
    /\ IF RaisesZeroDivision(tracks)
       THEN /\ pc' = "raised"
            /\ UNCHANGED <<nodes, neighbours, i, j>>
       ELSE /\ pc' = "build"
            /\ nodes' = NormalizedNodes(tracks)
            /\ neighbours' = [id \in 1..Len(tracks) |-> {}]
            /\ i' = 1
            /\ j' = 1
    /\ UNCHANGED <<tracks, distances, visited, unvisited, k, unvisited_node,
                   closest_visited_node, first_pass, connected>>

\* Mutant of OtherNodes: the test `other_node is not node` is missing.
EveryNode(node) == nodes

\* Lines 109-113: (distance, other_node) for every other node, in list order.
OtherNodes(node) == SelectSeq(nodes, LAMBDA other_node : other_node.id # node.id)

DistancesFrom(node) ==
    LET others == OtherNodes(node)
    IN  [p \in 1..Len(others) |->
           [distance |-> Distance(node, others[p]), node |-> others[p].id]]

\* Mutant of Closest: distances[:1].
ClosestOne(ds) == SubSeq(ds, 1, Min(1, Len(ds)))

\* distances[:2]
Closest(ds) == SubSeq(ds, 1, Min(2, Len(ds)))

\* Mutant of AddMutual: closest_node.neighbours is left alone.
AddOneWay(nbrs, node, closest_node) ==
    [nbrs EXCEPT ![node] = @ \cup {closest_node}]

\* Lines 116-119: if closest_node not in node.neighbours: add it, and add
\* node to closest_node.neighbours if it is not there.
AddMutual(nbrs, node, closest_node) ==
    IF closest_node \notin nbrs[node]
    THEN LET added == [nbrs EXCEPT ![node] = @ \cup {closest_node}]
         IN  IF node \notin added[closest_node]
             THEN [added EXCEPT ![closest_node] = @ \cup {node}]
             ELSE added
    ELSE nbrs

\* Lines 108-119: one iteration of `for _, closest_node in distances[:2]`;
\* the first one of a node comes after lines 109-114, which list and sort
\* its distances.  A node with no other node has no iteration.
AddClosest ==
    /\ pc = "build"
    /\ i <= Len(nodes)
    /\ \E ds \in {IF j = 1 THEN SortByDistance(DistancesFrom(nodes[i]))
                  ELSE distances} :
          \E closest \in {Closest(ds)} :
             /\ distances' = ds
             /\ neighbours' =
                   IF closest = <<>> THEN neighbours
                   ELSE AddMutual(neighbours, nodes[i].id, closest[j].node)
             /\ IF j >= Len(closest)
                THEN /\ i' = i + 1
                     /\ j' = 1
                ELSE /\ i' = i
                     /\ j' = j + 1
    /\ UNCHANGED <<tracks, nodes, pc, visited, unvisited, k, unvisited_node,
                   closest_visited_node, first_pass, connected>>

-----------------------------------------------------------------------------
(* TracksGraph._ensure_connectivity *)

\* unvisited = [node for node in self.nodes if node not in visited]
Unvisited(ns, vis) ==
    LET left == SelectSeq(ns, LAMBDA node : node.id \notin vis)
    IN  [p \in 1..Len(left) |-> left[p].id]

\* Line 121 and lines 125-137: the outer loop of build_graph is over, the
\* traversal from nodes[0] fills `visited`, and the unvisited nodes are listed.
EnsureConnectivity ==
    /\ pc = "build"
    /\ i > Len(nodes)
    /\ LET vis == Traverse({}, StartList(nodes), neighbours)
       IN  /\ visited' = vis
           /\ IF Cardinality(vis) # Len(nodes)
              THEN /\ unvisited' = Unvisited(nodes, vis)
                   /\ pc' = "repair"
              ELSE /\ unvisited' = <<>>
                   /\ pc' = "done"
    /\ k' = 1
    /\ first_pass' = neighbours
    /\ UNCHANGED <<tracks, nodes, neighbours, i, distances, j, unvisited_node,
                   closest_visited_node, connected>>

\* Mutant of CanBeClosest: the pairs are sorted in descending order.
CanBeFarthest(visited_node, node, vis) ==
    /\ visited_node \in vis
    /\ \A other \in vis :
          FLeq(Distance(nodes[node], nodes[other]),
               Distance(nodes[node], nodes[visited_node]))

\* Lines 139-146: visited_node can be distances[0][1] after the stable sort
\* of the (distance, visited_node) pairs.  The pairs are listed in the
\* iteration order of the set `visited`, which is arbitrary, so the first
\* pair of least distance can be any visited node of least distance.
CanBeClosest(visited_node, node, vis) ==
    /\ visited_node \in vis
    /\ \A other \in vis :
          FLeq(Distance(NodeOf(node), NodeOf(visited_node)),
               Distance(NodeOf(node), NodeOf(other)))

\* Mutant of AddBoth: closest_visited_node.neighbours is left alone.
AddForwardOnly(nbrs, a, b) == [nbrs EXCEPT ![a] = @ \cup {b}]

\* Mutant of AddBoth: neither add is made.
AddNeither(nbrs, a, b) == nbrs

\* Lines 147-148: both adds, unconditional.
AddBoth(nbrs, a, b) ==
    [id \in DOMAIN nbrs |->
        IF id = a /\ id = b THEN nbrs[id] \cup {a}
        ELSE IF id = a THEN nbrs[id] \cup {b}
        ELSE IF id = b THEN nbrs[id] \cup {a}
        ELSE nbrs[id]]

\* Lines 138-149: one iteration of `for unvisited_node in unvisited`.
Repair ==
    /\ pc = "repair"
    /\ k <= Len(unvisited)
    /\ unvisited_node' = unvisited[k]
    /\ IF visited # {}
       THEN \E visited_node \in visited :
               /\ CanBeClosest(visited_node, unvisited[k], visited)
               /\ closest_visited_node' = visited_node
               /\ neighbours' = AddBoth(neighbours, unvisited[k], visited_node)
               /\ visited' = visited \cup {unvisited[k]}
       ELSE UNCHANGED <<closest_visited_node, neighbours, visited>>
    /\ k' = k + 1
    /\ pc' = IF k = Len(unvisited) THEN "done" ELSE "repair"
    /\ UNCHANGED <<tracks, nodes, i, distances, j, unvisited, first_pass,
                   connected>>

-----------------------------------------------------------------------------
(* __main__, line 185, and is_connected on a graph made by hand *)

\* connected = is_connected(graph)
CheckConnected ==
    /\ pc \in {"done", "graph"}
    /\ connected' = is_connected(nodes, neighbours)
    /\ pc' = "checked"
    /\ UNCHANGED <<tracks, nodes, neighbours, i, distances, j, visited,
                   unvisited, k, unvisited_node, closest_visited_node,
                   first_pass>>

-----------------------------------------------------------------------------
(* Specifications *)

\* Lists over S of length at most n.
SeqsUpTo(S, n) == UNION {[1..m -> S] : m \in 0..n}

\* A playlist of at most MaxTracks catalog tracks, before TracksGraph(pl).
Init ==
    /\ tracks \in SeqsUpTo(Catalog, MaxTracks)
    /\ nodes = <<>>
    /\ neighbours = <<>>
    /\ pc = "start"
    /\ i = 0
    /\ distances = <<>>
    /\ j = 0
    /\ visited = {}
    /\ unvisited = <<>>
    /\ k = 0
    /\ unvisited_node = 0
    /\ closest_visited_node = 0
    /\ first_pass = <<>>
    /\ connected = FALSE

Next ==
    \/ Normalize
    \/ AddClosest
    \/ EnsureConnectivity
    \/ Repair
    \/ CheckConnected

Spec == Init /\ [][Next]_vars

\* A graph made by hand: a list of TrackNodes and any neighbour sets.
InitGraph ==
    /\ tracks = <<>>
    /\ nodes \in {[p \in DOMAIN ids |-> TrackNode(ids[p])] :
                     ids \in SeqsUpTo(NodeIds, MaxListLen)}
    /\ neighbours \in [NodeIds -> SUBSET NodeIds]
    /\ pc = "graph"
    /\ i = 0
    /\ distances = <<>>
    /\ j = 0
    /\ visited = {}
    /\ unvisited = <<>>
    /\ k = 0
    /\ unvisited_node = 0
    /\ closest_visited_node = 0
    /\ first_pass = <<>>
    /\ connected = FALSE

NextGraph == CheckConnected

SpecGraph == InitGraph /\ [][NextGraph]_vars

-----------------------------------------------------------------------------
(* Reference notions the properties are stated with *)

\* The identities of the nodes of a node list.
IdsOf(ns) == {ns[p].id : p \in DOMAIN ns}

\* Least set containing S and closed under nbrs: what is reachable from S.
RECURSIVE Closure(_, _)
Closure(S, nbrs) ==
    LET T == S \cup UNION {nbrs[x] : x \in S}
    IN  IF T = S THEN S ELSE Closure(T, nbrs)

\* Undirected edges of an adjacency function.
Edges(nbrs) == UNION {{{a, b} : b \in nbrs[a]} : a \in DOMAIN nbrs}

\* Edges the repair pass inserted.
NewEdges == Edges(neighbours) \ Edges(first_pass)

\* Connected components of a symmetric adjacency function.
Components(nbrs) == {Closure({a}, nbrs) : a \in DOMAIN nbrs}

\* build_graph has returned.
Built == pc \in {"done", "checked"}

\* The k-nearest pass is over and the repair pass has not started.
FirstPassOver == pc = "build" /\ i > Len(nodes)

-----------------------------------------------------------------------------
(* C1 *)

\* C1: once build_graph has finished, every node is reachable from every
\* other node through neighbour edges, and is_connected(graph) is true.
C1_Connected ==
    Built =>
        LET ids == IdsOf(nodes)
        IN  /\ \A a \in ids : Closure({a}, neighbours) = ids
            /\ pc = "checked" => connected

\* A six-track playlist whose first pass left nodes unreached, repaired and
\* checked.
C1_Witness ==
    /\ pc = "checked"
    /\ Len(nodes) = 6
    /\ unvisited # <<>>
    /\ connected

-----------------------------------------------------------------------------
(* C2 *)

\* C2: after every edge insertion step of either pass, and in the final
\* graph, A is in B.neighbours iff B is in A.neighbours.  (Stated for every
\* node A and every B of A.neighbours, which gives both directions.)
C2_EdgeSymmetry ==
    \A a \in DOMAIN neighbours : \A b \in neighbours[a] :
        b \in DOMAIN neighbours /\ a \in neighbours[b]

\* Both passes have inserted edges.
C2_Witness ==
    /\ pc = "done"
    /\ Edges(first_pass) # {}
    /\ NewEdges # {}

-----------------------------------------------------------------------------
(* C3 *)

\* C3: in every state during and after construction no node is in its own
\* neighbour set and every neighbour is a node of the graph's node list.
C3_NoSelfLoopsInGraph ==
    LET ids == IdsOf(nodes)
    IN  \A a \in DOMAIN neighbours :
            /\ a \notin neighbours[a]
            /\ neighbours[a] \subseteq ids

\* Edges of the first pass and an edge of the repair pass are present.
C3_Witness ==
    /\ pc = "done"
    /\ Len(nodes) = 6
    /\ \E a \in DOMAIN neighbours : neighbours[a] # first_pass[a]

-----------------------------------------------------------------------------
(* C4 *)

\* _normalize_features has just returned, and every loudness is negative.
AllLoudnessNegative ==
    /\ pc = "build"
    /\ i = 1
    /\ j = 1
    /\ tracks # <<>>
    /\ \A p \in DOMAIN tracks : tracks[p].loudness < 0

\* Greatest raw loudness of the playlist.
GreatestLoudness == MaxLoudness(tracks, NegInf).value

-----------------------------------------------------------------------------
(* C5 *)

\* C5 as stated: when the maximum loudness of a non-empty playlist is 0,
\* normalisation does not fail, every node gets loudness_dimention 0 and
\* construction goes on.
C5_DegenerateMax ==
    (/\ pc # "start"
     /\ tracks # <<>>
     /\ MaxLoudness(tracks, NegInf).value = 0)
    => /\ pc # "raised"
       /\ Len(nodes) = Len(tracks)
       /\ \A p \in DOMAIN nodes : FEq(nodes[p].loudness_dimention, Zero)

-----------------------------------------------------------------------------
(* C6 *)

\* Every distance inside A and inside B is less than every distance between
\* A and B.
Separated(A, B) ==
    \A a \in A :
        LET row == [x \in A \cup B |-> Distance(NodeOf(a), NodeOf(x))]
        IN  \A b \in B :
               LET cross == row[b]
               IN  /\ \A y \in A \ {a} : FLess(row[y], cross)
                   /\ \A x \in B : \A y \in B \ {x} :
                         FLess(Distance(NodeOf(x), NodeOf(y)), cross)

\* The six nodes split into two clusters of three, A holding nodes[0].
TwoClusters(A, B) ==
    /\ Len(nodes) = 6
    /\ 1 \in A
    /\ Cardinality(A) = 3
    /\ B = IdsOf(nodes) \ A
    /\ Separated(A, B)

\* C6: for two clusters of three, the k-nearest pass leaves two disconnected
\* triangles and _ensure_connectivity inserts exactly one new edge, between
\* the clusters; the final graph is connected.
C6_RepairScenario ==
    (Built /\ Len(nodes) = 6) =>
        \A A \in SUBSET IdsOf(nodes) :
            LET B == IdsOf(nodes) \ A
            IN  TwoClusters(A, B) =>
                  /\ \A a \in A : first_pass[a] = A \ {a}
                  /\ \A b \in B : first_pass[b] = B \ {b}
                  /\ Edges(first_pass) \subseteq Edges(neighbours)
                  /\ Cardinality(NewEdges) = 1
                  /\ \A e \in NewEdges : e \cap A # {} /\ e \cap B # {}
                  /\ Closure({1}, neighbours) = IdsOf(nodes)

\* A built graph of two separated clusters of three.
C6_Witness ==
    /\ pc = "done"
    /\ \E A \in SUBSET IdsOf(nodes) : TwoClusters(A, IdsOf(nodes) \ A)

-----------------------------------------------------------------------------
(* C7, under SpecGraph *)

\* Every node of the list is reachable from the first one (true of an empty
\* list).
AllReachableFromFirst ==
    nodes = <<>> \/ IdsOf(nodes) \subseteq Closure({nodes[1].id}, neighbours)

\* C7 as stated: for every node list and every assignment of neighbour sets,
\* is_connected returns true iff every node of the list is reachable from
\* the first one.
C7_Original ==
    pc = "checked" => (connected <=> AllReachableFromFirst)

\* The list names no node twice and neighbour sets of its nodes stay within
\* the list.
WellFormedGraph ==
    /\ \A p \in DOMAIN nodes : \A q \in DOMAIN nodes :
          nodes[p].id = nodes[q].id => p = q
    /\ \A a \in IdsOf(nodes) : neighbours[a] \subseteq IdsOf(nodes)

\* C7, amended: for every list of distinct nodes whose neighbour sets only
\* hold nodes of the list, is_connected returns true iff every node of the
\* list is reachable from the first one.
C7_WellFormed ==
    (pc = "checked" /\ WellFormedGraph) => (connected <=> AllReachableFromFirst)

\* A well-formed hand-made graph of three nodes that is_connected rejects
\* although an edge leaves its first node.
C7_Witness ==
    /\ pc = "checked"
    /\ WellFormedGraph
    /\ Len(nodes) = 3
    /\ neighbours[nodes[1].id] # {}
    /\ ~connected

-----------------------------------------------------------------------------
(* C8 *)

\* The nodes the traversal from nodes[0] reached on the first-pass graph.
InitiallyVisited == Closure({1}, first_pass)

\* The nodes of unvisited processed before the m-th one.
ProcessedBefore(m) == {unvisited[p] : p \in 1..(m - 1)}

\* C8: the unvisited nodes are processed in node-list order; the node
\* processed last was joined to a node of least distance among those visited
\* at that moment (the initially visited nodes and the unvisited nodes
\* processed before it), and was then added to visited.
C8_RepairOrdering ==
    (pc \in {"repair", "done", "checked"} /\ k > 1) =>
        LET u == unvisited[k - 1]
            initial == InitiallyVisited
            before == initial \cup ProcessedBefore(k - 1)
        IN  /\ \A p \in DOMAIN unvisited : \A q \in DOMAIN unvisited :
                  p < q => unvisited[p] < unvisited[q]
            /\ {unvisited[p] : p \in DOMAIN unvisited}
                   = IdsOf(nodes) \ initial
            /\ unvisited_node = u
            /\ closest_visited_node \in before
            /\ \A w \in before :
                  FLeq(Distance(NodeOf(u), NodeOf(closest_visited_node)),
                       Distance(NodeOf(u), NodeOf(w)))
            /\ closest_visited_node \in neighbours[u]
            /\ u \in neighbours[closest_visited_node]
            /\ visited = before \cup {u}

\* The second unvisited node has been joined to the one processed before it.
C8_Witness ==
    /\ pc = "repair"
    /\ k = 3
    /\ closest_visited_node = unvisited[1]

-----------------------------------------------------------------------------
(* C9 *)

\* The distances from node n to every node, listed by identity.
DistanceRow(n) ==
    SubSeq([o \in 1..Len(nodes) |-> Distance(NodeOf(n), NodeOf(o))],
           1, Len(nodes))

\* How many other nodes come before m in the list of the nodes other than n
\* sorted by distance to n (row), equal distances in node-list order.
Rank(row, n, m) ==
    Cardinality({o \in IdsOf(nodes) \ {n, m} :
        FLess(row[o], row[m]) \/ (FEq(row[o], row[m]) /\ o < m)})

\* C9: after the first pass every node n has among its neighbours the first
\* min(2, N-1) nodes of that sorted list, hence at least min(2, N-1)
\* neighbours.
C9_NearestTwo ==
    FirstPassOver =>
        \A n \in IdsOf(nodes) :
            LET row == DistanceRow(n)
            IN  /\ \A m \in IdsOf(nodes) \ {n} :
                      Rank(row, n, m) < 2 => m \in neighbours[n]
                /\ Cardinality(neighbours[n]) >= Min(2, Len(nodes) - 1)

\* The first pass is over for four nodes, two of them at equal distance from
\* the first node and only the earlier one of the two its neighbour.
C9_Witness ==
    /\ FirstPassOver
    /\ Len(nodes) = 4
    /\ FEq(Distance(NodeOf(1), NodeOf(3)), Distance(NodeOf(1), NodeOf(4)))
    /\ 3 \in neighbours[1]
    /\ 4 \notin neighbours[1]

-----------------------------------------------------------------------------
(* C10 *)

\* C10 as stated: a first pass that leaves c components is followed by
\* exactly c-1 new edges; none, and no change, when it leaves one component.
C10_Original ==
    (Built /\ nodes # <<>>) =>
        LET c == Cardinality(Components(first_pass))
        IN  /\ Cardinality(NewEdges) = c - 1
            /\ c = 1 => neighbours = first_pass

\* C10, amended: a first pass that leaves c components is followed by at
\* least c-1 new edges and at most one per node the traversal from nodes[0]
\* did not reach; none, and no change, when it leaves one component.
C10_RepairEdges ==
    (Built /\ nodes # <<>>) =>
        LET c == Cardinality(Components(first_pass))
            new == Cardinality(NewEdges)
        IN  /\ new >= c - 1
            /\ new <= Len(unvisited)
            /\ c = 1 => neighbours = first_pass

\* Two components after the first pass, and two new edges.
C10_Witness ==
    /\ pc = "done"
    /\ Cardinality(Components(first_pass)) = 2
    /\ Cardinality(NewEdges) = 2

=============================================================================
